---- MODULE Spec2Model ----
(***************************************************************************)
(* Model of the event-loop core of the gain socket server: the load        *)
(* balancer exercised by load_balancer_internal_test.go, the completion    *)
(* tag built by the acceptor and decoded by the consumer loop, and the     *)
(* consumer worker (handoff, per-connection state machine, shutdown).      *)
(***************************************************************************)
EXTENDS Integers, Sequences, FiniteSets, TLC

(***************************************************************************)
(* Bounds of the model.                                                    *)
(***************************************************************************)
\* width of the completion tag in the model (uint64 in the program)
TagBits == 8
\* largest initial active-connection count of a test worker
MaxConns == 2
\* number of next() calls followed on one balancer
MaxCalls == 8
\* number of descriptors the accepting side can produce
NumFds == 2
\* number of accepts (handoffs started) followed in one run
MaxHandoffs == 2
\* number of read/write operations followed per connection
MaxOps == 2
\* number of submission entries of the acceptor's ring
RingEntries == 2

(***************************************************************************)
(* Program constants.                                                      *)
(***************************************************************************)
numberOfTestWorkers == 4
\* syscall.Stderr
Stderr == 2

NoWorker == 0

VARIABLES
  \* ---- load balancer (SpecLB) ----
  strategy,   \* "rr" | "lc": which balancer the test built
  pool,       \* the balancer's ordered worker list
  cursor,     \* round robin: index of the next worker (0-based)
  wconns,     \* testWorker.conns of every worker
  conns0,     \* the counts the workers had when the balancer was built
  picks,      \* the workers returned by next(), in call order
  assigned,   \* the worker returned by the last next() and not yet served
  \* ---- completion tag (SpecTag) ----
  tdesc,      \* the descriptor submitted
  tflag,      \* the flag submitted with it
  ttag,       \* the tag, once built (-1 before)
  tfd,        \* the descriptor the loop recovered (-1 before)
  \* ---- consumer worker (Spec) ----
  hasQueue,         \* connQueue # nil: ring messaging is not supported
  conns,            \* connectionManager: descriptor -> connection
  socketAddresses,  \* sync.Map: descriptor -> remote address in transit
  connQueue,        \* the fallback queue of descriptors
  inflight,         \* operations submitted to the ring, not yet completed
  pc,               \* the loop's position
  shutdownSignal,   \* shutdown() was called
  inProgress,       \* markShutdownInProgress() was called
  finished,         \* notifyFinish() was called
  sock,             \* the descriptor's socket: "free" | "open"
  prod,             \* the accepting side's position for the descriptor
  budget,           \* accepts left in this run
  ev,               \* what the last step did: handler, effects in order, result
  hist,             \* states the descriptor's connection went through, in order
  owed,             \* handoffs made minus handoffs served, per descriptor
  \* ---- acceptor (SpecAcc) ----
  accFd,            \* a.fd: the listening descriptor
  accRing,          \* a.ring: free submission entries, entries prepared
  accConn,          \* the listener's connection in a.connectionManager
  accRet            \* what the last addAcceptConnRequest returned

lbVars == <<strategy, pool, cursor, wconns, conns0, picks, assigned>>
tagVars == <<tdesc, tflag, ttag, tfd>>
accVars == <<accFd, accRing, accConn, accRet>>
wkVars == <<hasQueue, conns, socketAddresses, connQueue, inflight, pc,
            shutdownSignal, inProgress, finished, sock, prod, budget, ev,
            hist, owed>>

(***************************************************************************)
(* Bitwise arithmetic on TagBits-wide unsigned integers.                   *)
(***************************************************************************)
RECURSIVE Pow2(_)
Pow2(n) == IF n = 0 THEN 1 ELSE 2 * Pow2(n - 1)

RECURSIVE AndBits(_, _, _)
AndBits(x, y, n) ==
  IF n = 0 THEN 0
  ELSE ((x % 2) * (y % 2)) + 2 * AndBits(x \div 2, y \div 2, n - 1)

RECURSIVE OrBits(_, _, _)
OrBits(x, y, n) ==
  IF n = 0 THEN 0
  ELSE (IF (x % 2) + (y % 2) > 0 THEN 1 ELSE 0)
       + 2 * OrBits(x \div 2, y \div 2, n - 1)

BitAnd(x, y) == AndBits(x, y, TagBits)
BitOr(x, y) == OrBits(x, y, TagBits)
BitNot(x) == (Pow2(TagBits) - 1) - (x % Pow2(TagBits))

(***************************************************************************)
(* The flag set: one high bit each.                                        *)
(***************************************************************************)
acceptDataFlag == Pow2(TagBits - 1)
writeDataFlag == Pow2(TagBits - 2)
addConnFlag == Pow2(TagBits - 3)
closeConnFlag == Pow2(TagBits - 4)
allFlagsMask ==
  BitOr(BitOr(acceptDataFlag, writeDataFlag), BitOr(addConnFlag, closeConnFlag))
Flags == {acceptDataFlag, writeDataFlag, addConnFlag, closeConnFlag}

\* the descriptors that fit below the flag bits
Descriptors == 0 .. (Pow2(TagBits - 4) - 1)

\* every value a tag can take
Tags == 0 .. (Pow2(TagBits) - 1)

\* the three expressions the program applies to tags, tabulated once
OrTable == [f \in Flags |-> [d \in Descriptors |-> BitOr(f, d)]]
MaskTable == [t \in Tags |-> BitAnd(t, BitNot(allFlagsMask))]
MutMaskTable == [t \in Tags |-> BitAnd(t, BitNot(closeConnFlag))]
TestTable == [t \in Tags |-> [f \in Flags |-> BitAnd(t, f)]]

\* entry.UserData = flag | uint64(fd)
TagOf(f, d) == OrTable[f][d]

\* cqe.UserData() & ^allFlagsMask
MutMaskedFdKeepsFlags(tag) == MutMaskTable[tag]
MaskedFd(tag) == MaskTable[tag]

\* cqe.UserData()&flag > 0
HasFlag(tag, f) == TestTable[tag][f] > 0

(***************************************************************************)
(* SpecTag: a tag is built from a descriptor and a flag, then decoded.     *)
(***************************************************************************)
InitTagVars ==
  /\ tdesc \in Descriptors
  /\ tflag \in Flags
  /\ ttag = -1
  /\ tfd = -1

IdleTagVars ==
  /\ tdesc = 0
  /\ tflag = acceptDataFlag
  /\ ttag = -1
  /\ tfd = -1

\* the submitting side: addAcceptRequest and its siblings
BuildTag ==
  /\ ttag = -1
  /\ ttag' = TagOf(tflag, tdesc)
  /\ UNCHANGED <<tdesc, tflag, tfd>>

\* the loop: recover the descriptor
DecodeTag ==
  /\ ttag # -1
  /\ tfd = -1
  /\ tfd' = MaskedFd(ttag)
  /\ UNCHANGED <<tdesc, tflag, ttag>>

(***************************************************************************)
(* Acceptor: one accept request on the listening descriptor.              *)
(***************************************************************************)
\* the descriptors a listening socket can have
ListenFds == {d \in Descriptors : d > Stderr}

InitAccVars ==
  /\ accFd \in ListenFds
  /\ accRing \in {[free |-> n, sq |-> <<>>] : n \in 0 .. RingEntries}
  /\ accConn \in {"none", "new"}
  /\ accRet = "none"

IdleAccVars ==
  /\ accFd = Stderr + 1
  /\ accRing = [free |-> 0, sq |-> <<>>]
  /\ accConn = "none"
  /\ accRet = "none"

\* a.ring.GetSQE(): an entry, or an error when no entry is free
GetSQE(ring) ==
  IF ring.free = 0 THEN [err |-> TRUE, ring |-> ring]
  ELSE [err |-> FALSE, ring |-> [ring EXCEPT !.free = @ - 1]]

\* entry.PrepareAccept(...); entry.UserData = acceptDataFlag | uint64(a.fd)
AcceptEntry(fd, userData) == [op |-> "accept", fd |-> fd, userData |-> userData]

\* addAcceptRequest
MutAddAcceptRequestNoFlag(ring, fd) ==
  LET g == GetSQE(ring) IN
  IF g.err THEN [err |-> TRUE, ring |-> ring]
  ELSE [err |-> FALSE,
        ring |-> [g.ring EXCEPT !.sq = Append(@, AcceptEntry(fd, fd))]]
addAcceptRequest(ring, fd) ==
  LET g == GetSQE(ring) IN
  IF g.err THEN [err |-> TRUE, ring |-> ring]
  ELSE [err |-> FALSE,
        ring |-> [g.ring EXCEPT
                    !.sq = Append(@, AcceptEntry(fd, TagOf(acceptDataFlag, fd)))]]

\* addAcceptConnRequest: what it returns, the ring and the listener's
\* connection after it
addAcceptConnRequest(ring, fd, conn) ==
  LET r == addAcceptRequest(ring, fd) IN
  IF r.err THEN [ret |-> "ErrGettingSQE", ring |-> r.ring, conn |-> conn]
  ELSE IF conn = "none"
       THEN [ret |-> "ErrConnectionIsMissing", ring |-> r.ring, conn |-> conn]
       ELSE [ret |-> "nil", ring |-> r.ring, conn |-> "accept"]

\* one call of addAcceptConnRequest
AcceptorCall ==
  LET r == addAcceptConnRequest(accRing, accFd, accConn) IN
  /\ accRing' = r.ring
  /\ accConn' = r.conn
  /\ accRet' = r.ret
  /\ UNCHANGED accFd

\* the prepared entries are submitted to the kernel and their slots freed
RingSubmit ==
  /\ accRing.sq # <<>>
  /\ accRing' = [free |-> accRing.free + Len(accRing.sq), sq |-> <<>>]
  /\ accRet' = "none"
  /\ UNCHANGED <<accFd, accConn>>

\* the listener's connection enters the registry
ListenerTracked ==
  /\ accConn = "none"
  /\ accConn' = "new"
  /\ accRet' = "none"
  /\ UNCHANGED <<accFd, accRing>>

\* the listener's connection leaves the registry
ListenerClosed ==
  /\ accConn # "none"
  /\ accConn' = "none"
  /\ accRet' = "none"
  /\ UNCHANGED <<accFd, accRing>>

(***************************************************************************)
(* Load balancer.                                                          *)
(***************************************************************************)
Workers == 1 .. numberOfTestWorkers

InitLBVars ==
  /\ strategy \in {"rr", "lc"}
  /\ pool = <<>>
  /\ cursor = 0
  /\ wconns \in [Workers -> 0 .. MaxConns]
  /\ conns0 = wconns
  /\ picks = <<>>
  /\ assigned = NoWorker

IdleLBVars ==
  /\ strategy = "rr"
  /\ pool = <<>>
  /\ cursor = 0
  /\ wconns = [w \in Workers |-> 0]
  /\ conns0 = wconns
  /\ picks = <<>>
  /\ assigned = NoWorker

InPool(w) == \E i \in 1 .. Len(pool) : pool[i] = w

\* lb.register(worker)
Register(w) ==
  /\ ~InPool(w)
  /\ picks = <<>>
  /\ pool' = Append(pool, w)
  /\ UNCHANGED <<strategy, cursor, wconns, conns0, picks, assigned>>

\* round robin: return pool[c], then c = (c+1) mod len(pool)
MutRoundRobinStuck(ws, c) == [worker |-> ws[c + 1], cursor |-> c]
RoundRobinNext(ws, c) ==
  [worker |-> ws[c + 1], cursor |-> (c + 1) % Len(ws)]

\* least connections: linear scan in registration order keeping the first
\* worker with the smallest activeConnections()
RECURSIVE LeastScan(_, _, _, _)
LeastScan(ws, counts, i, best) ==
  IF i > Len(ws) THEN best
  ELSE IF best = NoWorker \/ counts[ws[i]] < counts[best]
       THEN LeastScan(ws, counts, i + 1, ws[i])
       ELSE LeastScan(ws, counts, i + 1, best)

LeastConnectionsNext(ws, counts) == LeastScan(ws, counts, 1, NoWorker)

\* testWorker.loop: w.conns++
MutWorkerLoopNoCount(w) == wconns
WorkerLoop(w) == [wconns EXCEPT ![w] = @ + 1]

NextRoundRobin ==
  /\ strategy = "rr"
  /\ Len(pool) >= 1
  /\ assigned = NoWorker
  /\ Len(picks) < MaxCalls
  /\ LET r == RoundRobinNext(pool, cursor)
     IN /\ cursor' = r.cursor
        /\ picks' = Append(picks, r.worker)
        /\ assigned' = r.worker
  /\ UNCHANGED <<strategy, pool, wconns, conns0>>

NextLeastConnections ==
  /\ strategy = "lc"
  /\ Len(pool) >= 1
  /\ assigned = NoWorker
  /\ Len(picks) < MaxCalls
  /\ LET w == LeastConnectionsNext(pool, wconns)
     IN /\ picks' = Append(picks, w)
        /\ assigned' = w
  /\ UNCHANGED <<strategy, pool, cursor, wconns, conns0>>

\* worker.loop(0) on the worker next() returned
ServeAssigned ==
  /\ assigned # NoWorker
  /\ wconns' = WorkerLoop(assigned)
  /\ assigned' = NoWorker
  /\ UNCHANGED <<strategy, pool, cursor, conns0, picks>>

(***************************************************************************)
(* Consumer worker.                                                        *)
(***************************************************************************)
FDs == (Stderr + 1) .. (Stderr + NumFds)
\* remote addresses are numbered from 1; 0 is the absent address
NoAddr == 0
\* c.localAddr
LocalAddr == 9
\* a nil *connection
Nil == 0

NoConn ==
  [state |-> "none", localAddr |-> NoAddr, remoteAddr |-> NoAddr,
   userSpace |-> FALSE]
NewConn ==
  [state |-> "accept", localAddr |-> NoAddr, remoteAddr |-> NoAddr,
   userSpace |-> FALSE]

\* connectionManager.getFd(fd), connectionManager.get(key, 0): lookup only
GetFd(cs, fd) == IF fd \in FDs /\ cs[fd].state # "none" THEN fd ELSE Nil
Tracked(cs) == {fd \in FDs : cs[fd].state # "none"}
\* connectionManager.allClosed()
AllClosed(cs) == Tracked(cs) = {}

\* The part of the state one handler run reads and writes, with the effects
\* it has had so far (fx) and the error it is about to return (err).
World ==
  [conns |-> conns, inflight |-> inflight, sa |-> socketAddresses,
   sock |-> sock, hist |-> hist, trail |-> <<>>, fx |-> <<>>, err |-> FALSE]

Fx(w, e) == [w EXCEPT !.fx = Append(@, e)]
Count(fx, e) == Cardinality({i \in 1 .. Len(fx) : fx[i] = e})
Has(fx, e) == \E i \in 1 .. Len(fx) : fx[i] = e
\* e occurs in fx, and before every occurrence of f
Before(fx, e, f) ==
  /\ Has(fx, e)
  /\ \A j \in 1 .. Len(fx) : fx[j] = f => \E i \in 1 .. (j - 1) : fx[i] = e

Op(tag, res, id) == [tag |-> tag, res |-> res, id |-> id]

\* syscallCloseSocket(fd)
SyscallCloseSocket(w, fd) ==
  IF fd \in FDs THEN [Fx(w, "syscallClose") EXCEPT !.sock[fd] = "free"]
  ELSE Fx(w, "syscallClose")

\* conn.setUserSpace()
SetUserSpace(w, fd) == [Fx(w, "setUserSpace") EXCEPT !.conns[fd].userSpace = TRUE]

\* closeConn(conn, syscallClose, err): the connection is destroyed and leaves
\* the registry; with syscallClose the socket is closed by hand first
CloseConn(w, fd, syscallClose) ==
  LET w1 == IF syscallClose THEN SyscallCloseSocket(w, fd)
            ELSE [w EXCEPT !.sock[fd] = "free"]
  IN [Fx(w1, "closeConn") EXCEPT
        !.conns[fd] = NoConn,
        !.trail = w.hist[fd],
        !.hist[fd] = <<>>]

\* addNextRequest(conn): submit the read or the write the connection needs
\* next; fails when the ring has no free submission slot
AddNextRequest(w, fd, nxt, ok) ==
  IF ok
  THEN [Fx(w, IF nxt = "write" THEN "submit_write" ELSE "submit_read") EXCEPT
          !.conns[fd].state = nxt,
          !.conns[fd].userSpace = FALSE,
          !.inflight = @ \cup
             {Op(IF nxt = "write" THEN TagOf(writeDataFlag, fd) ELSE fd, 0, 0)},
          !.hist[fd] = IF Len(@) > 0 /\ @[Len(@)] = nxt THEN @
                       ELSE Append(@, nxt),
          !.err = FALSE]
  ELSE [Fx(w, "submitFail") EXCEPT !.err = TRUE]

\* addCloseConnRequest(conn)
AddCloseConnRequest(w, fd, ok) ==
  IF ok
  THEN [Fx(w, "submit_close") EXCEPT
          !.conns[fd].state = "close",
          !.inflight = @ \cup {Op(TagOf(closeConnFlag, fd), 0, 0)},
          !.hist[fd] = Append(@, "close"),
          !.err = FALSE]
  ELSE [Fx(w, "submitFail") EXCEPT !.err = TRUE]

\* onRead(cqe, conn): a failed read is an error; otherwise the bytes go to
\* the on-read callback and the next operation is submitted
OnRead(w, fd, r, nxt, ok) ==
  IF r < 0 THEN [w EXCEPT !.err = TRUE]
  ELSE AddNextRequest(Fx(w, "OnRead"), fd, nxt, ok)

\* eventHandler.OnAccept(conn)
OnAccept(w, fd) ==
  [Fx(w, "OnAccept") EXCEPT !.hist[fd] = <<w.conns[fd].state>>]

\* handleConn, case connWrite
MutHandleWriteCallbackFirst(w, fd, nxt, ok) ==
  LET w1 == Fx(w, "onKernelWrite")
      w2 == Fx(w1, "OnWrite")
      w3 == SetUserSpace(w2, fd)
  IN AddNextRequest(w3, fd, nxt, ok)
HandleWrite(w, fd, nxt, ok) ==
  LET w1 == Fx(w, "onKernelWrite")
      w2 == SetUserSpace(w1, fd)
      w3 == Fx(w2, "OnWrite")
  IN AddNextRequest(w3, fd, nxt, ok)

\* handleConn, case connClose
MutHandleCloseResumes(w, fd, tag) ==
  IF HasFlag(tag, closeConnFlag) THEN CloseConn(w, fd, FALSE)
  ELSE IF HasFlag(tag, writeDataFlag)
       THEN AddNextRequest(
              Fx(SetUserSpace(Fx(w, "onKernelWrite"), fd), "OnWrite"),
              fd, "read", TRUE)
       ELSE w
MutHandleCloseAnyFlag(w, fd, tag) ==
  IF HasFlag(tag, closeConnFlag) \/ HasFlag(tag, writeDataFlag)
  THEN CloseConn(w, fd, FALSE)
  ELSE w
HandleClose(w, fd, tag) ==
  IF HasFlag(tag, closeConnFlag) THEN CloseConn(w, fd, FALSE)
  ELSE IF HasFlag(tag, writeDataFlag)
       THEN Fx(SetUserSpace(Fx(w, "onKernelWrite"), fd), "OnWrite")
       ELSE w

\* handleConn: if err != nil, the error is logged and the connection closed
CloseOnError(w, fd, errMsg) ==
  IF w.err
  THEN [CloseConn(Fx(w, errMsg), fd, TRUE) EXCEPT !.err = FALSE]
  ELSE w

\* handleConn(conn, cqe)
MutHandleConnIgnoresUnknown(w, fd, tag, r, nxt, ok) ==
  LET st == w.conns[fd].state
      w1 == CASE st = "read" -> OnRead(w, fd, r, nxt, ok)
              [] st = "write" -> HandleWrite(w, fd, nxt, ok)
              [] st = "close" -> HandleClose(w, fd, tag)
              [] OTHER -> w
      errMsg == CASE st = "read" -> "log_readError"
                  [] st = "write" -> "log_addRequestError"
                  [] OTHER -> "log_unknownState"
  IN CloseOnError(w1, fd, errMsg)
HandleConn(w, fd, tag, r, nxt, ok) ==
  LET st == w.conns[fd].state
      w1 == CASE st = "read" -> OnRead(w, fd, r, nxt, ok)
              [] st = "write" -> HandleWrite(w, fd, nxt, ok)
              [] st = "close" -> HandleClose(w, fd, tag)
              [] OTHER -> [w EXCEPT !.err = TRUE]
      errMsg == CASE st = "read" -> "log_readError"
                  [] st = "write" -> "log_addRequestError"
                  [] OTHER -> "log_unknownState"
  IN CloseOnError(w1, fd, errMsg)

\* the address lookup of a claim: Load, then Delete, or the miss is logged
MutAttachKeepsEntry(w, fd) ==
  IF w.sa[fd] # NoAddr
  THEN [w EXCEPT !.conns[fd].remoteAddr = w.sa[fd]]
  ELSE Fx(w, "log_addrNotFound")
AttachRemoteAddr(w, fd) ==
  IF w.sa[fd] # NoAddr
  THEN [Fx(w, "deleteAddr") EXCEPT
          !.conns[fd].remoteAddr = w.sa[fd],
          !.sa[fd] = NoAddr]
  ELSE Fx(w, "log_addrNotFound")

\* if err != nil, the error is logged and dropped
LogOnError(w, msg) ==
  IF w.err THEN [Fx(w, msg) EXCEPT !.err = FALSE] ELSE w

\* getConnsFromQueue: the loop body for one dequeued descriptor
MutQueueClaimAbortsOnMiss(w, fd, nxt, ok) ==
  IF GetFd(w.conns, fd) = Nil \/ w.sa[fd] = NoAddr
  THEN Fx(Fx(w, "log_connMissing"), "log_addrNotFound")
  ELSE AddNextRequest(OnAccept(SetUserSpace(AttachRemoteAddr(w, fd), fd), fd),
                      fd, nxt, ok)
QueueClaim(w, fd, nxt, ok) ==
  IF GetFd(w.conns, fd) = Nil THEN Fx(w, "log_connMissing")
  ELSE LET w1 == [w EXCEPT !.conns[fd].localAddr = LocalAddr]
           w2 == AttachRemoteAddr(w1, fd)
           w3 == SetUserSpace(w2, fd)
           w4 == OnAccept(w3, fd)
       IN LogOnError(AddNextRequest(w4, fd, nxt, ok), "log_addRequestError")

\* loop, branch cqe.UserData()&addConnFlag > 0; err is what the handler returns
RingClaim(w, fd, nxt, ok) ==
  IF GetFd(w.conns, fd) = Nil
  THEN SyscallCloseSocket(Fx(w, "log_connMissing"), fd)
  ELSE LET w1 == [w EXCEPT !.conns[fd].localAddr = LocalAddr]
           w2 == AttachRemoteAddr(w1, fd)
           w3 == SetUserSpace(w2, fd)
           w4 == OnAccept(w3, fd)
       IN AddNextRequest(w4, fd, nxt, ok)

\* processEvent(cqe, skip): TRUE when the event is to be dropped; skip is the
\* loop's predicate: the masked descriptor is not tracked
MutProcessEventNeverExits(w, tag) == FALSE
ProcessEventExit(w, tag) == GetFd(w.conns, MaskedFd(tag)) = Nil

\* the completion handler the loop passes to startLoop
LoopHandler(w, op, r, nxt, ok) ==
  LET key == MaskedFd(op.tag) IN
  IF ProcessEventExit(w, op.tag) THEN Fx(w, "drop")
  ELSE IF HasFlag(op.tag, addConnFlag) THEN RingClaim(w, op.res, nxt, ok)
  ELSE IF key < Stderr THEN Fx(w, "log_invalidFd")
  ELSE IF GetFd(w.conns, key) = Nil
       THEN SyscallCloseSocket(Fx(w, "log_connMissing"), key)
  ELSE HandleConn(w, key, op.tag, r, nxt, ok)

\* closeAllConns: the callback given to connectionManager.close
CloseCallback(w, fd, ok) ==
  LogOnError(AddCloseConnRequest(w, fd, ok), "log_closeError")

Lowest(S) == CHOOSE x \in S : \A y \in S : x <= y

\* connectionManager.close(callback, -1): the callback runs on every connection
RECURSIVE CloseEach(_, _, _)
CloseEach(w, todo, fails) ==
  IF todo = {} THEN w
  ELSE LET fd == Lowest(todo)
       IN CloseEach(CloseCallback(w, fd, fd \notin fails), todo \ {fd}, fails)

\* closeAllConns
CloseAllConns(w, fails) ==
  CloseEach(Fx(w, "log_closing"), Tracked(w.conns), fails)

\* needToShutdown(): the signal is set and shutdown is not yet in progress
NeedToShutdown == shutdownSignal /\ ~inProgress

\* loopFinishCondition
MutFinishWithoutAllClosed(cs) == TRUE
LoopFinishCondition(cs) == AllClosed(cs)

Event(h, fd, tag, fx, ret, n, trail) ==
  [h |-> h, fd |-> fd, tag |-> tag, fx |-> fx, ret |-> ret, n |-> n,
   trail |-> trail]

InitWorkerVars ==
  /\ hasQueue \in BOOLEAN
  /\ conns = [fd \in FDs |-> NoConn]
  /\ socketAddresses = [fd \in FDs |-> NoAddr]
  /\ connQueue = <<>>
  /\ inflight = {}
  /\ pc = "prepare"
  /\ shutdownSignal = FALSE
  /\ inProgress = FALSE
  /\ finished = FALSE
  /\ sock = [fd \in FDs |-> "free"]
  /\ prod = [fd \in FDs |-> "idle"]
  /\ budget = MaxHandoffs
  /\ ev = Event("other", 0, 0, <<>>, "nil", 0, <<>>)
  /\ hist = [fd \in FDs |-> <<>>]
  /\ owed = [fd \in FDs |-> 0]

IdleWorkerVars ==
  /\ hasQueue = FALSE
  /\ conns = [fd \in FDs |-> NoConn]
  /\ socketAddresses = [fd \in FDs |-> NoAddr]
  /\ connQueue = <<>>
  /\ inflight = {}
  /\ pc = "prepare"
  /\ shutdownSignal = FALSE
  /\ inProgress = FALSE
  /\ finished = FALSE
  /\ sock = [fd \in FDs |-> "free"]
  /\ prod = [fd \in FDs |-> "idle"]
  /\ budget = 0
  /\ ev = Event("other", 0, 0, <<>>, "nil", 0, <<>>)
  /\ hist = [fd \in FDs |-> <<>>]
  /\ owed = [fd \in FDs |-> 0]

\* ---- the accepting side and the controller ----

Quiet == Event("other", 0, 0, <<>>, "nil", 0, <<>>)

\* accept() returns the lowest descriptor that is free
LowestFree(fd) ==
  /\ sock[fd] = "free"
  /\ \A g \in FDs : g < fd => sock[g] # "free"

\* the accepting worker's accept completes with descriptor fd; reg: a
\* connection for fd is registered with the serving worker
Accepted(fd, reg) ==
  /\ pc = "loop"
  /\ LowestFree(fd)
  /\ prod[fd] = "idle"
  /\ conns[fd].state = "none"
  /\ budget > 0
  /\ sock' = [sock EXCEPT ![fd] = "open"]
  /\ budget' = budget - 1
  /\ conns' = IF reg THEN [conns EXCEPT ![fd] = NewConn] ELSE conns

\* the remote address captured by the accept in progress
PeerAddr == (MaxHandoffs - budget) + 1

\* an accept, then setSocketAddr(fd, addr)
SetSocketAddr(fd, addr, reg) ==
  /\ Accepted(fd, reg)
  /\ socketAddresses' = [socketAddresses EXCEPT ![fd] = addr]
  /\ prod' = [prod EXCEPT ![fd] = "stored"]
  /\ ev' = Quiet
  /\ UNCHANGED <<hasQueue, connQueue, inflight, pc, shutdownSignal,
                 inProgress, finished, hist, owed>>

\* the descriptor is ready to be handed over: its address was stored, or
\* (skip) it is accepted now and handed over without an address
Ready(fd, skip) ==
  IF skip
  THEN /\ Accepted(fd, TRUE)
       /\ UNCHANGED socketAddresses
  ELSE /\ pc = "loop"
       /\ prod[fd] = "stored"
       /\ UNCHANGED <<sock, budget, conns, socketAddresses>>

\* addConnToQueue(fd)
AddConnToQueue(fd, skip) ==
  /\ hasQueue
  /\ Ready(fd, skip)
  /\ connQueue' = Append(connQueue, fd)
  /\ prod' = [prod EXCEPT ![fd] = "idle"]
  /\ owed' = [owed EXCEPT ![fd] = @ + 1]
  /\ ev' = Event("addConnToQueue", fd, 0, <<>>, "nil", 0, <<>>)
  /\ UNCHANGED <<hasQueue, inflight, pc, shutdownSignal, inProgress,
                 finished, hist>>

\* addConnToQueue(fd) on a worker that has no queue
MutAddConnToQueueNilEnqueues(fd) ==
  /\ ~hasQueue
  /\ pc = "loop"
  /\ prod[fd] = "stored"
  /\ connQueue' = Append(connQueue, fd)
  /\ ev' = Event("addConnToQueue", fd, 0, <<>>, "ErrConnectionQueueIsNil",
                 0, <<>>)
  /\ UNCHANGED <<hasQueue, conns, socketAddresses, inflight, pc,
                 shutdownSignal, inProgress, finished, sock, prod, budget,
                 hist, owed>>
AddConnToQueueNil(fd) ==
  /\ ~hasQueue
  /\ pc = "loop"
  /\ prod[fd] = "stored"
  /\ ev' = Event("addConnToQueue", fd, 0, <<>>, "ErrConnectionQueueIsNil",
                 0, <<>>)
  /\ ev' # ev
  /\ UNCHANGED <<hasQueue, conns, socketAddresses, connQueue, inflight, pc,
                 shutdownSignal, inProgress, finished, sock, prod, budget,
                 hist, owed>>

\* the native transfer: a ring message to the serving worker's ring whose
\* completion carries addConnFlag and the descriptor
SendMsgRing(fd, skip) ==
  /\ ~hasQueue
  /\ Ready(fd, skip)
  /\ inflight' = inflight \cup {Op(TagOf(addConnFlag, fd), fd, budget')}
  /\ prod' = [prod EXCEPT ![fd] = "idle"]
  /\ owed' = [owed EXCEPT ![fd] = @ + 1]
  /\ ev' = Quiet
  /\ UNCHANGED <<hasQueue, connQueue, pc, shutdownSignal, inProgress,
                 finished, hist>>

\* shutdown()
Shutdown ==
  /\ ~shutdownSignal
  /\ pc = "loop"
  /\ shutdownSignal' = TRUE
  /\ ev' = Quiet
  /\ UNCHANGED <<hasQueue, conns, socketAddresses, connQueue, inflight, pc,
                 inProgress, finished, sock, prod, budget, hist, owed>>

\* ---- the serving worker's loop ----

Commit(w) ==
  /\ conns' = w.conns
  /\ inflight' = w.inflight
  /\ socketAddresses' = w.sa
  /\ sock' = w.sock
  /\ hist' = w.hist

\* prepareHandler
Prepare ==
  /\ pc = "prepare"
  /\ pc' = "loop"
  /\ ev' = Quiet
  /\ UNCHANGED <<hasQueue, conns, socketAddresses, connQueue, inflight,
                 shutdownSignal, inProgress, finished, sock, prod, budget,
                 hist, owed>>

\* shutdownHandler
MutShutdownHandlerNoMark ==
  /\ pc = "loop"
  /\ shutdownSignal
  /\ \E fails \in SUBSET Tracked(conns) :
       /\ ~NeedToShutdown => fails = {}
       /\ \E w \in {IF NeedToShutdown THEN CloseAllConns(World, fails)
                    ELSE World} :
             /\ Commit(w)
             /\ ev' = Event("shutdownHandler", 0, 0, w.fx, "nil",
                            Cardinality(Tracked(conns)), <<>>)
  /\ UNCHANGED <<hasQueue, connQueue, pc, shutdownSignal, inProgress,
                 finished, prod, budget, owed>>
ShutdownHandler ==
  /\ pc = "loop"
  /\ shutdownSignal
  /\ \E fails \in SUBSET Tracked(conns) :
       /\ ~NeedToShutdown => fails = {}
       /\ \E w \in {IF NeedToShutdown THEN CloseAllConns(World, fails)
                    ELSE World} :
             /\ Commit(w)
             /\ ev' = Event("shutdownHandler", 0, 0, w.fx, "nil",
                            Cardinality(Tracked(conns)), <<>>)
  /\ inProgress' = (inProgress \/ NeedToShutdown)
  /\ UNCHANGED <<hasQueue, connQueue, pc, shutdownSignal, finished, prod,
                 budget, owed>>

\* a handoff of fd was taken from the queue or the ring: a tracked
\* connection is owed one on-accept per handoff, an untracked one none
Served(fd, fx) ==
  [owed EXCEPT ![fd] = @ - (IF GetFd(conns, fd) = Nil THEN 1
                            ELSE Count(fx, "OnAccept"))]

\* the submissions followed for one connection are bounded
CanSubmit(fd, ok) == ok => (fd \in FDs => Len(hist[fd]) <= MaxOps)

\* one completion event handled by the loop's handler; when the handler
\* returns an error startLoop either ends the loop or goes on
Complete(op) ==
  /\ pc = "loop"
  /\ op \in inflight
  /\ \E c \in {"readError", "ringFull", "read", "write"} :
       LET r == IF c = "readError" THEN -1 ELSE 1
           ok == c # "ringFull"
           nxt == IF c = "write" THEN "write" ELSE "read"
           isAdd == HasFlag(op.tag, addConnFlag)
           fd == IF isAdd THEN op.res ELSE MaskedFd(op.tag)
           w0 == [World EXCEPT !.inflight = @ \ {op}]
       IN /\ isAdd \/ CanSubmit(fd, ok)
          /\ \E w \in {LoopHandler(w0, op, r, nxt, ok)} :
               /\ Commit(w)
               /\ owed' = IF isAdd THEN Served(fd, w.fx) ELSE owed
               /\ ev' = Event("event", fd, op.tag, w.fx,
                              IF w.err THEN "err" ELSE "nil", 0, w.trail)
               /\ pc' \in (IF w.err THEN {"failed", "loop"} ELSE {"loop"})
  /\ UNCHANGED <<hasQueue, connQueue, shutdownSignal, inProgress, finished,
                 prod, budget>>

HandleCompletion == \E op \in inflight : Complete(op)

\* handleJobsInQueues, getConnsFromQueue: one turn of its for loop
DrainOne ==
  /\ pc = "loop"
  /\ hasQueue
  /\ connQueue # <<>>
  /\ \E c \in {"ringFull", "read", "write"} :
       LET ok == c # "ringFull"
           nxt == IF c = "write" THEN "write" ELSE "read"
           fd == Head(connQueue)
       IN \E w \in {QueueClaim(World, fd, nxt, ok)} :
            /\ Commit(w)
            /\ owed' = Served(fd, w.fx)
            /\ ev' = Event("drain", fd, 0, w.fx, "nil", 0, <<>>)
  /\ connQueue' = Tail(connQueue)
  /\ UNCHANGED <<hasQueue, pc, shutdownSignal, inProgress, finished, prod,
                 budget>>

\* the looper asks loopFinishCondition once shutdown is in progress
FinishCheck ==
  /\ pc = "loop"
  /\ inProgress
  /\ LoopFinishCondition(conns)
  /\ finished' = TRUE
  /\ pc' = "done"
  /\ ev' = Event("finishCheck", 0, 0, <<"notifyFinish">>, "nil", 0, <<>>)
  /\ UNCHANGED <<hasQueue, conns, socketAddresses, connQueue, inflight,
                 shutdownSignal, inProgress, sock, prod, budget, hist, owed>>

InitWorker == InitWorkerVars /\ IdleLBVars /\ IdleTagVars /\ IdleAccVars
NextWorker ==
  \/ (\E fd \in FDs, reg \in BOOLEAN : SetSocketAddr(fd, PeerAddr, reg))
       /\ UNCHANGED <<lbVars, tagVars, accVars>>
  \/ (\E fd \in FDs, skip \in BOOLEAN : AddConnToQueue(fd, skip))
       /\ UNCHANGED <<lbVars, tagVars, accVars>>
  \/ (\E fd \in FDs : AddConnToQueueNil(fd)) /\ UNCHANGED <<lbVars, tagVars, accVars>>
  \/ (\E fd \in FDs, skip \in BOOLEAN : SendMsgRing(fd, skip))
       /\ UNCHANGED <<lbVars, tagVars, accVars>>
  \/ Shutdown /\ UNCHANGED <<lbVars, tagVars, accVars>>
  \/ Prepare /\ UNCHANGED <<lbVars, tagVars, accVars>>
  \/ ShutdownHandler /\ UNCHANGED <<lbVars, tagVars, accVars>>
  \/ HandleCompletion /\ UNCHANGED <<lbVars, tagVars, accVars>>
  \/ DrainOne /\ UNCHANGED <<lbVars, tagVars, accVars>>
  \/ FinishCheck /\ UNCHANGED <<lbVars, tagVars, accVars>>

InitLB == InitLBVars /\ IdleTagVars /\ IdleAccVars /\ IdleWorkerVars
NextLB ==
  \/ (\E w \in Workers : Register(w)) /\ UNCHANGED <<tagVars, accVars, wkVars>>
  \/ NextRoundRobin /\ UNCHANGED <<tagVars, accVars, wkVars>>
  \/ NextLeastConnections /\ UNCHANGED <<tagVars, accVars, wkVars>>
  \/ ServeAssigned /\ UNCHANGED <<tagVars, accVars, wkVars>>

InitTag == InitTagVars /\ IdleLBVars /\ IdleAccVars /\ IdleWorkerVars
NextTag ==
  \/ BuildTag /\ UNCHANGED <<lbVars, accVars, wkVars>>
  \/ DecodeTag /\ UNCHANGED <<lbVars, accVars, wkVars>>

InitAcc == InitAccVars /\ IdleLBVars /\ IdleTagVars /\ IdleWorkerVars
NextAcc ==
  \/ AcceptorCall /\ UNCHANGED <<lbVars, tagVars, wkVars>>
  \/ RingSubmit /\ UNCHANGED <<lbVars, tagVars, wkVars>>
  \/ ListenerTracked /\ UNCHANGED <<lbVars, tagVars, wkVars>>
  \/ ListenerClosed /\ UNCHANGED <<lbVars, tagVars, wkVars>>

vars == <<lbVars, tagVars, accVars, wkVars>>

SpecLB == InitLB /\ [][NextLB]_vars
SpecTag == InitTag /\ [][NextTag]_vars
SpecAcc == InitAcc /\ [][NextAcc]_vars
Spec == InitWorker /\ [][NextWorker]_vars

\* every operation the serving worker's ring can hold
AllOps ==
  UNION {{Op(fd, 0, 0), Op(TagOf(writeDataFlag, fd), 0, 0),
          Op(TagOf(closeConnFlag, fd), 0, 0)} \cup
         {Op(TagOf(addConnFlag, fd), fd, i) : i \in 0 .. MaxHandoffs} :
         fd \in FDs}

\* The loop keeps iterating: each of its handlers runs again and again, and
\* every submitted operation completes; a handoff that was started is made.
LoopFairness ==
  LET Rest == UNCHANGED <<lbVars, tagVars, accVars>> IN
  /\ WF_vars(ShutdownHandler /\ Rest)
  /\ WF_vars(DrainOne /\ Rest)
  /\ WF_vars(FinishCheck /\ Rest)
  /\ \A op \in AllOps : WF_vars(Complete(op) /\ Rest)
  /\ \A fd \in FDs : WF_vars(AddConnToQueue(fd, FALSE) /\ Rest)
  /\ \A fd \in FDs : WF_vars(SendMsgRing(fd, FALSE) /\ Rest)

SpecLive == InitWorker /\ [][NextWorker]_vars /\ LoopFairness

(***************************************************************************)
(* Claims about the load balancer (SpecLB).                                *)
(***************************************************************************)

\* C1: round robin: the (k+1)-th call to next returns the worker registered
\* at position k mod N, whatever the workers' connection counts are.
C1_RoundRobinOrder ==
  strategy = "rr" =>
    \A k \in 1 .. Len(picks) : picks[k] = pool[((k - 1) % Len(pool)) + 1]

C1_Witness ==
  /\ strategy = "rr"
  /\ Len(pool) = numberOfTestWorkers
  /\ pool[1] # 1
  /\ Len(picks) = 2 * numberOfTestWorkers
  /\ \E v, w \in Workers : wconns[v] # wconns[w]

\* the number of times w was returned among the first n calls
RECURSIVE TimesPicked(_, _)
TimesPicked(w, n) ==
  IF n = 0 THEN 0
  ELSE TimesPicked(w, n - 1) + (IF picks[n] = w THEN 1 ELSE 0)

\* the count of w that call k reads when every earlier pick was served
CountAtCall(w, k) == conns0[w] + TimesPicked(w, k - 1)

PoolIndex(w) == CHOOSE i \in 1 .. Len(pool) : pool[i] = w

FirstMinimumAt(k) ==
  /\ InPool(picks[k])
  /\ \A i \in 1 .. Len(pool) :
       /\ CountAtCall(pool[i], k) >= CountAtCall(picks[k], k)
       /\ i < PoolIndex(picks[k]) =>
            CountAtCall(pool[i], k) > CountAtCall(picks[k], k)

TestPicks == <<2, 1, 2, 4, 1, 2, 3, 4>>
TestConns == (1 :> 1) @@ (2 :> 0) @@ (3 :> 2) @@ (4 :> 1)

\* C2: least connections: every call returns the lowest-index worker among
\* those holding the minimum count at that call, the counts including every
\* earlier pick's increment; from counts [1,0,2,1] the picks are workers
\* 1,0,1,3,0,1,2,3 (here numbered from 1).
C2_LeastConnectionsFirstMin ==
  strategy = "lc" =>
    /\ \A k \in 1 .. Len(picks) : FirstMinimumAt(k)
    /\ (pool = <<1, 2, 3, 4>> /\ conns0 = TestConns) =>
         \A k \in 1 .. Len(picks) :
           k <= Len(TestPicks) => picks[k] = TestPicks[k]

C2_Witness ==
  /\ strategy = "lc"
  /\ pool = <<1, 2, 3, 4>>
  /\ conns0 = TestConns
  /\ Len(picks) = Len(TestPicks)
  /\ assigned = NoWorker

(***************************************************************************)
(* Claims about the completion tag (SpecTag).                              *)
(***************************************************************************)

\* C7: for every descriptor d and flag f, masking the flag bits of (f | d)
\* gives back d, and (f | d) & g is non-zero exactly for g = f.
C7_TagMasking ==
  /\ ttag # -1 => \A g \in Flags : HasFlag(ttag, g) <=> (g = tflag)
  /\ tfd # -1 => tfd = tdesc

C7_Witness ==
  /\ tfd # -1
  /\ tdesc = Pow2(TagBits - 4) - 1
  /\ tflag = addConnFlag

(***************************************************************************)
(* Claims about the consumer worker (Spec).                                *)
(***************************************************************************)
Last(s) == s[Len(s)]

\* the last step claimed a handed-off descriptor: one turn of
\* getConnsFromQueue, or a completion carrying addConnFlag
IsClaim == ev.h = "drain" \/ (ev.h = "event" /\ HasFlag(ev.tag, addConnFlag))

\* the submissions a handler attempted, failed ones included
Attempts(fx) ==
  Count(fx, "submit_read") + Count(fx, "submit_write") + Count(fx, "submitFail")

\* a history that starts in the accept state never returns to it, and close
\* is its last state
Lifecycle(h) ==
  (h # <<>> /\ h[1] = "accept") =>
    /\ \A i \in 2 .. Len(h) : h[i] \in {"read", "write", "close"}
    /\ \A i \in 1 .. (Len(h) - 1) : h[i] # "close"

\* C3: a claimed connection moves accept -> read/write -> close and never
\* back; while it has a history it is in the registry in the state last
\* assigned; it leaves the registry without an error only when the
\* completion carrying the close flag is processed in the closing state, and
\* from the closing state it leaves in no other way.
C3_Lifecycle ==
  /\ \A fd \in FDs :
       /\ hist[fd] # <<>> => conns[fd].state = Last(hist[fd])
       /\ Lifecycle(hist[fd])
  /\ Lifecycle(ev.trail)
  /\ (ev.h = "event" /\ Has(ev.fx, "closeConn")
        /\ ~Has(ev.fx, "syscallClose")) =>
       /\ HasFlag(ev.tag, closeConnFlag)
       /\ ev.trail # <<>>
       /\ Last(ev.trail) = "close"
  /\ (ev.h = "event" /\ Has(ev.fx, "closeConn") /\ ev.trail # <<>>
        /\ Last(ev.trail) = "close") =>
       /\ HasFlag(ev.tag, closeConnFlag)
       /\ ~Has(ev.fx, "syscallClose")

C3_Witness ==
  /\ ev.h = "event"
  /\ HasFlag(ev.tag, closeConnFlag)
  /\ ev.trail = <<"accept", "read", "write", "close">>
  /\ Has(ev.fx, "closeConn")
  /\ conns[ev.fd].state = "none"

\* handoffs of fd the worker has not taken yet
PendingHandoffs(fd) ==
  Cardinality({i \in 1 .. Len(connQueue) : connQueue[i] = fd})
  + Cardinality({op \in inflight : HasFlag(op.tag, addConnFlag) /\ op.res = fd})

\* C4: every handoff is taken once; a claim fires on-accept once and attempts
\* one first submission; after it the descriptor has no address-map entry, so
\* a later claim of the descriptor takes the address-not-found path.
C4_HandoffExactlyOnce ==
  /\ \A fd \in FDs : owed[fd] = PendingHandoffs(fd)
  /\ (IsClaim /\ Has(ev.fx, "OnAccept")) =>
       /\ Count(ev.fx, "OnAccept") = 1
       /\ Attempts(ev.fx) = 1
       /\ Count(ev.fx, "deleteAddr") + Count(ev.fx, "log_addrNotFound") = 1
       /\ socketAddresses[ev.fd] = NoAddr

C4_Witness ==
  /\ IsClaim
  /\ Has(ev.fx, "OnAccept")
  /\ Has(ev.fx, "deleteAddr")
  /\ conns[ev.fd].remoteAddr # NoAddr
  /\ \A fd \in FDs : owed[fd] = 0
  /\ budget = 0

\* every handoff started was taken by the worker
HandoffsProcessed ==
  /\ \A fd \in FDs : prod[fd] = "idle" /\ PendingHandoffs(fd) = 0

\* C5: once all handed-off descriptors have been processed the address map
\* is empty, on every path including the one with no tracked connection.
C5_MapEmptyWhenProcessed ==
  HandoffsProcessed => \A fd \in FDs : socketAddresses[fd] = NoAddr

\* C6: the shutdown handler that closes all connections attempts one close
\* per tracked connection, logs every failed attempt and goes on; and
\* notifyFinish happens only when the registry reports all closed.
C6_ShutdownConvergence ==
  /\ (ev.h = "shutdownHandler" /\ Has(ev.fx, "log_closing")) =>
       /\ Count(ev.fx, "submit_close") + Count(ev.fx, "submitFail") = ev.n
       /\ Count(ev.fx, "log_closeError") = Count(ev.fx, "submitFail")
       /\ inProgress
  /\ (ev.h = "shutdownHandler" /\ ~Has(ev.fx, "log_closing")) => ev.fx = <<>>
  /\ Has(ev.fx, "notifyFinish") => AllClosed(conns)
  /\ finished => AllClosed(conns)

C6_Witness ==
  /\ ev.h = "shutdownHandler"
  /\ ev.n = 2
  /\ ev.fx = <<"log_closing", "submitFail", "log_closeError", "submit_close">>

\* C8: the completion handler of the loop never returns an error for a
\* per-connection failure.
C8_HandlerNeverReturnsError == ev.h = "event" => ev.ret = "nil"

\* C9: whenever the registry lookup for an expected connection returns none,
\* the condition is logged, the socket is force-closed and no callback fires.
C9_MissingConnForceClosed ==
  Has(ev.fx, "log_connMissing") =>
    /\ Has(ev.fx, "syscallClose")
    /\ ~Has(ev.fx, "OnAccept")
    /\ ~Has(ev.fx, "OnRead")
    /\ ~Has(ev.fx, "OnWrite")

\* C10: a claim that finds no address-map entry logs the miss, then marks the
\* buffers user-owned, fires on-accept and attempts the first submission; it
\* attaches no remote address (the address of a connection handed off once
\* stays absent) and the connection is not closed.
C10_HandoffMissTolerated ==
  (IsClaim /\ Has(ev.fx, "log_addrNotFound")) =>
    /\ Before(ev.fx, "log_addrNotFound", "setUserSpace")
    /\ Before(ev.fx, "setUserSpace", "OnAccept")
    /\ Has(ev.fx, "OnAccept")
    /\ Attempts(ev.fx) = 1
    /\ ev.fx[Len(ev.fx)] # "OnAccept"
    /\ ~Has(ev.fx, "closeConn")
    /\ ~Has(ev.fx, "syscallClose")
    /\ ~Has(ev.fx, "deleteAddr")
    /\ conns[ev.fd].state # "none"
    /\ budget = MaxHandoffs - 1 => conns[ev.fd].remoteAddr = NoAddr

C10_Witness ==
  /\ ev.h = "drain"
  /\ Has(ev.fx, "log_addrNotFound")
  /\ Has(ev.fx, "submit_read")
  /\ conns[ev.fd].state = "read"
  /\ conns[ev.fd].remoteAddr = NoAddr

(***************************************************************************)
(* Claims about single operations of the consumer worker (Spec).           *)
(***************************************************************************)

\* the fields of the consumer worker itself
workerState ==
  <<hasQueue, conns, socketAddresses, connQueue, inflight, pc, shutdownSignal,
    inProgress, finished>>

\* C11: addConnToQueue on a worker built without a queue returns
\* ErrConnectionQueueIsNil and changes no worker state; on a worker that has a
\* queue it appends the descriptor to the queue and returns no error.
C11_AddConnToQueue ==
  [][ev'.h = "addConnToQueue" =>
       IF hasQueue
       THEN /\ ev'.ret = "nil"
            /\ connQueue' = Append(connQueue, ev'.fd)
       ELSE /\ ev'.ret = "ErrConnectionQueueIsNil"
            /\ UNCHANGED workerState]_vars

C11_Witness ==
  /\ ~hasQueue
  /\ ev.h = "addConnToQueue"
  /\ ev.ret = "ErrConnectionQueueIsNil"
  /\ Tracked(conns) # {}

\* a completion handled in the writing state: the write is accounted and a
\* next operation is attempted
IsWriteCompletion ==
  /\ ev.h = "event"
  /\ Has(ev.fx, "onKernelWrite")
  /\ Attempts(ev.fx) >= 1

\* C12 as stated: a write completion in the writing state accounts the write,
\* fires on-write, flips the buffers to user-owned and submits the next
\* operation, in that order: on-write comes before the flip.
C12_OnWriteBeforeFlip ==
  IsWriteCompletion =>
    /\ Before(ev.fx, "onKernelWrite", "OnWrite")
    /\ Before(ev.fx, "OnWrite", "setUserSpace")
    /\ \A e \in {"submit_read", "submit_write", "submitFail"} :
         Before(ev.fx, "setUserSpace", e)

\* C12 as amended: a write completion in the writing state accounts the
\* write, flips the buffers to user-owned, fires on-write and submits the next
\* operation, in that order: the flip comes before on-write.
C12_WriteCompletionOrder ==
  IsWriteCompletion =>
    /\ Len(ev.fx) >= 4
    /\ ev.fx[1] = "onKernelWrite"
    /\ ev.fx[2] = "setUserSpace"
    /\ ev.fx[3] = "OnWrite"
    /\ ev.fx[4] \in {"submit_read", "submit_write", "submitFail"}
    /\ Count(ev.fx, "onKernelWrite") = 1
    /\ Count(ev.fx, "setUserSpace") = 1
    /\ Count(ev.fx, "OnWrite") = 1
    /\ Attempts(ev.fx) = 1

C12_Witness ==
  /\ IsWriteCompletion
  /\ HasFlag(ev.tag, writeDataFlag)
  /\ Has(ev.fx, "submit_read")
  /\ conns[ev.fd].state = "read"
  /\ ~conns[ev.fd].userSpace

\* the step handles a completion, not an added-connection message, for a
\* tracked connection that is in state st
HandlesIn(st) ==
  /\ ev'.h = "event"
  /\ ~HasFlag(ev'.tag, addConnFlag)
  /\ GetFd(conns, MaskedFd(ev'.tag)) # Nil
  /\ conns[MaskedFd(ev'.tag)].state = st

\* C13: in the closing state a completion carrying the close flag destroys
\* the connection and removes it from the registry; a completion carrying the
\* write-data flag and not the close flag accounts the write, fires on-write,
\* submits no further operation and leaves the connection closing.
C13_ClosingDisambiguation ==
  [][HandlesIn("close") =>
       LET fd == MaskedFd(ev'.tag) IN
       IF HasFlag(ev'.tag, closeConnFlag)
       THEN /\ ev'.fx = <<"closeConn">>
            /\ conns'[fd] = NoConn
            /\ Tracked(conns') = Tracked(conns) \ {fd}
       ELSE HasFlag(ev'.tag, writeDataFlag) =>
            /\ Before(ev'.fx, "onKernelWrite", "OnWrite")
            /\ Count(ev'.fx, "OnWrite") = 1
            /\ Attempts(ev'.fx) = 0
            /\ ~Has(ev'.fx, "closeConn")
            /\ inflight' \subseteq inflight
            /\ conns'[fd].state = "close"]_vars

C13_Witness ==
  /\ ev.h = "event"
  /\ HasFlag(ev.tag, writeDataFlag)
  /\ ev.fx = <<"onKernelWrite", "setUserSpace", "OnWrite">>
  /\ conns[ev.fd].state = "close"
  /\ Op(TagOf(closeConnFlag, ev.fd), 0, 0) \in inflight

\* C14: for the same descriptor, registry and address map, a claim through
\* the fallback queue and a claim through an added-connection completion end
\* in the same connection, address map, sockets and operations in flight,
\* with on-accept fired as often and the same outcome for the loop, on the
\* success path and on every failure path.
C14_TransferPathsEquivalent ==
  \A fd \in FDs, nxt \in {"read", "write"}, ok \in BOOLEAN :
    LET q == QueueClaim(World, fd, nxt, ok)
        n == LoopHandler(World, Op(TagOf(addConnFlag, fd), fd, 0), 1, nxt, ok)
    IN /\ q.conns = n.conns
       /\ q.sa = n.sa
       /\ q.sock = n.sock
       /\ q.inflight = n.inflight
       /\ Count(q.fx, "OnAccept") = Count(n.fx, "OnAccept")
       /\ q.err = n.err

\* C15: a completion whose flag-masked descriptor is not tracked is dropped:
\* no callback fires, nothing is submitted, no connection, registry, address
\* or socket state changes and the handler returns no error; this holds for
\* added-connection completions too, the tracked check coming first.
C15_LateCompletionDropped ==
  [][(ev'.h = "event" /\ GetFd(conns, MaskedFd(ev'.tag)) = Nil) =>
       /\ ev'.fx = <<"drop">>
       /\ ev'.ret = "nil"
       /\ inflight' \subseteq inflight
       /\ UNCHANGED <<conns, socketAddresses, sock, connQueue, hist>>]_vars

C15_Witness ==
  /\ ev.h = "event"
  /\ ev.fx = <<"drop">>
  /\ ~HasFlag(ev.tag, addConnFlag)
  /\ ~HasFlag(ev.tag, closeConnFlag)
  /\ inProgress
  /\ conns[ev.fd].state = "none"

\* C16: close-all runs at most once: it runs only in a shutdown-handler run
\* that finds shutdown not yet in progress and marks it in progress, the mark
\* is never taken back, and a shutdown-handler run that finds shutdown in
\* progress issues no close and changes nothing.
C16_ShutdownIdempotent ==
  [][/\ inProgress => inProgress'
     /\ (ev'.h = "shutdownHandler" /\ Has(ev'.fx, "log_closing")) =>
          (~inProgress /\ inProgress')
     /\ (ev'.h = "shutdownHandler" /\ inProgress) =>
          /\ ev'.fx = <<>>
          /\ UNCHANGED <<conns, inflight, hist, sock>>]_vars

C16_Witness ==
  /\ ev.h = "shutdownHandler"
  /\ ev.fx = <<>>
  /\ inProgress
  /\ \E fd \in FDs : conns[fd].state \in {"read", "write"}

\* the step handles a completion, not an added-connection message, for a
\* tracked connection whose state is none of reading, writing, closing
HandlesInUnknownState ==
  /\ ev'.h = "event"
  /\ ~HasFlag(ev'.tag, addConnFlag)
  /\ GetFd(conns, MaskedFd(ev'.tag)) # Nil
  /\ conns[MaskedFd(ev'.tag)].state \notin {"read", "write", "close"}

\* C18: a completion dispatched to a tracked connection whose state is none
\* of reading, writing or closing is reported as an unknown connection state
\* and the connection is closed, socket included, and leaves the registry; no
\* on-read or on-write fires, nothing is submitted, the handler returns no
\* error and the loop goes on.
C18_UnknownStateClosed ==
  [][HandlesInUnknownState =>
       /\ ev'.fx = <<"log_unknownState", "syscallClose", "closeConn">>
       /\ conns'[MaskedFd(ev'.tag)] = NoConn
       /\ sock'[MaskedFd(ev'.tag)] = "free"
       /\ inflight' \subseteq inflight
       /\ ev'.ret = "nil"
       /\ pc' = "loop"]_vars

C18_Witness ==
  /\ ev.h = "event"
  /\ Has(ev.fx, "log_unknownState")
  /\ conns[ev.fd] = NoConn
  /\ pc = "loop"

\* the step claims a descriptor, from the queue or from an added-connection
\* completion, and finds its connection
ClaimsTracked ==
  /\ ev'.h = "drain" \/ (ev'.h = "event" /\ HasFlag(ev'.tag, addConnFlag))
  /\ Has(ev'.fx, "OnAccept")

\* C19: a connection is claimed with on-accept fired once, after its
\* addresses are attached and its buffers marked user-owned and before its
\* first operation is submitted; on-accept is not fired again for a
\* connection already claimed; on-read and on-write fire only for a
\* connection that has been claimed. A claimed connection is one whose local
\* address is set.
C19_CallbackOrdering ==
  [][/\ ClaimsTracked =>
          /\ conns[ev'.fd].localAddr = NoAddr
          /\ Count(ev'.fx, "OnAccept") = 1
          /\ Has(ev'.fx, "deleteAddr") \/ Has(ev'.fx, "log_addrNotFound")
          /\ \A e \in {"deleteAddr", "log_addrNotFound"} :
               Has(ev'.fx, e) => Before(ev'.fx, e, "OnAccept")
          /\ Before(ev'.fx, "setUserSpace", "OnAccept")
          /\ \A e \in {"submit_read", "submit_write", "submitFail"} :
               Before(ev'.fx, "OnAccept", e)
     /\ (ev'.h = "event" /\ (Has(ev'.fx, "OnRead") \/ Has(ev'.fx, "OnWrite"))) =>
          conns[ev'.fd].localAddr = LocalAddr]_vars

\* the loop has not been ended by a handler error and the ring has refused
\* no submission in the last step
NoFailure == pc # "failed" /\ ~Has(ev.fx, "submitFail")

\* C20: once shutdown is triggered, and as long as the loop keeps iterating,
\* every submitted operation completes and no submission is refused, the
\* worker eventually finds every connection closed and signals loop
\* completion, also when a descriptor is handed off and claimed after
\* close-all has run.
C20_ShutdownCompletes ==
  []NoFailure => (shutdownSignal ~> finished)

(***************************************************************************)
(* Claims about the acceptor (SpecAcc).                                    *)
(***************************************************************************)

\* C17: addAcceptConnRequest with no free submission entry returns the
\* submission error, enqueues nothing and changes no connection state; with a
\* free entry and no tracked connection for the listening descriptor it
\* returns ErrConnectionIsMissing; otherwise it enqueues one accept operation
\* tagged acceptDataFlag | listening descriptor, sets the listener's
\* connection to accepting and returns no error.
C17_AcceptRequestOutcomes ==
  [][accRet' # "none" =>
       IF accRing.free = 0
       THEN /\ accRet' = "ErrGettingSQE"
            /\ UNCHANGED <<accRing, accConn>>
       ELSE IF accConn = "none"
            THEN /\ accRet' = "ErrConnectionIsMissing"
                 /\ accConn' = "none"
            ELSE /\ accRet' = "nil"
                 /\ accRing'.sq =
                      Append(accRing.sq,
                             AcceptEntry(accFd, BitOr(acceptDataFlag, accFd)))
                 /\ accRing'.free = accRing.free - 1
                 /\ accConn' = "accept"]_vars

C17_Witness ==
  /\ accRet = "nil"
  /\ accConn = "accept"
  /\ accFd > Stderr + 1
  /\ Len(accRing.sq) = RingEntries
  /\ accRing.free = 0

====
